---- MODULE Spec2Model ----
(***************************************************************************)
(* Anchor NFT marketplace (programs/marketplace): the four instructions    *)
(* init_marketplace, listing, delisting and purchase, each modelled as one *)
(* atomic ledger transaction.  An instruction first validates and creates  *)
(* its accounts (the #[derive(Accounts)] struct), then runs its handler    *)
(* methods in the order lib.rs calls them.  Every sub-step works on a      *)
(* scratch copy of the ledger; the ledger commits the copy only when every *)
(* sub-step returned Ok, otherwise the transaction is rolled back.         *)
(*                                                                         *)
(* lib.rs compiles the `instructions` module; the structs under context/   *)
(* are not part of the program and are not modelled.  The token, system    *)
(* and metadata programs appear only through the calls the handlers make:  *)
(* account creation with its rent, lamport transfers, token transfers and  *)
(* closing a token account.  Transaction fees are left out.                *)
(***************************************************************************)
EXTENDS Integers, Sequences, FiniteSets, TLC

(* ------------------------------ bounds --------------------------------- *)
\* Width of the unsigned integers of the model: u64 of the program is
\* scaled to U64Bits bits so that the checked arithmetic can overflow.
U64Bits == 29
U64_MAX == 2^U64Bits - 1
\* Rent (backing funds) reserved by each kind of account, in lamports.
ListingRent == 2
TokenAccountRent == 3
MarketplaceRent == 4
MintRent == 1
\* Longest seed the address derivation of the ledger accepts, in bytes.
MAX_SEED_LEN == 32

Identities == {"alice", "bob"}
Assets == {"nft1", "nft2"}
Collections == {"colX", "colY"}
\* Marketplace names: a name is its identity and its length in bytes.
Names == {[id |-> "mA", len |-> 32], [id |-> "mLong", len |-> 33]}
\* The names a marketplace address can be derived from.
MarketKeys == {n \in Names : n.len <= MAX_SEED_LEN}
\* Fee rates (u16): none, a usual one, the purchase cap, one above the cap,
\* the largest u16.
Fees == {0, 250, 5000, 6000, 65535}
\* Listing prices: zero, one whose fee is rounded down, the largest u64.
MidPrice == 40001
Prices == {0, MidPrice, U64_MAX}
\* Lamports of the wallets at the start: bob can just afford one purchase
\* at the middle price plus the rent of the token account it needs.
InitLamports == [alice |-> 100000, bob |-> MidPrice + TokenAccountRent]
\* Who holds which asset at the start.
InitHolder == [nft1 |-> "alice", nft2 |-> "bob"]
\* Token accounts that exist at the start without holding the unit.
InitEmptyAta == {<<"alice", "nft2">>}

\* An address no account lives at.
NoAccount == [exists |-> FALSE]
\* An account just created by an `init` constraint: allocated, still zeroed.
Allocated == [exists |-> TRUE]
\* spl-token Account { mint, owner, amount, .. } of one mint.
TokenAccount(amount) == [exists |-> TRUE, amount |-> amount]
NoCollection == "NoCollection"
Ok == "Ok"

(* ------------------------------- state --------------------------------- *)
VARIABLES
    marketplace,  \* MarketKeys -> Marketplace | NoAccount
    listing,      \* MarketKeys x Assets -> Listing | NoAccount
    vault,        \* MarketKeys x Assets -> TokenAccount of the listing PDA | NoAccount
    ata,          \* Identities x Assets -> TokenAccount of the wallet | NoAccount
    lamports,     \* Identities -> lamports of the wallet
    treasury,     \* MarketKeys -> lamports of the treasury PDA of the marketplace
    metadata,     \* Assets -> [collection, verified] of the Metaplex metadata
    result,       \* outcome of the last transaction (instruction, inputs, error, log)
    prior         \* the ledger as it was before the last transaction

vars == <<marketplace, listing, vault, ata, lamports, treasury, metadata, result, prior>>

\* The ledger accounts an instruction works on, as one record.
Ledger ==
    [marketplace |-> marketplace, listing |-> listing, vault |-> vault,
     ata |-> ata, lamports |-> lamports, treasury |-> treasury]

\* pub struct Marketplace { admin, fee, bump, treasury_bump, rewards_bump, name }
Marketplace(admin, fee, name) == [exists |-> TRUE, admin |-> admin, fee |-> fee, name |-> name]

\* pub struct Listing { maker, maker_mint, price, bump }
Listing(maker, maker_mint, price) == [exists |-> TRUE, maker |-> maker, maker_mint |-> maker_mint, price |-> price]

(* ----------------------- transaction plumbing -------------------------- *)
\* A running transaction: scratch ledger, error (Ok while running), log of
\* the sub-steps that completed.
Begin(l) == [st |-> l, err |-> Ok, steps |-> <<>>]
Fail(r, e) == [r EXCEPT !.err = e]
Step(r, l, name) == [r EXCEPT !.st = l, !.steps = Append(@, name)]

\* Mutant of Commit: the scratch copy is kept even when a sub-step failed.
CommitPartial(r) == r.st

\* Result<()> of the #[program] entry points: the ledger keeps the scratch
\* copy when the instruction returned Ok and discards it on any Err.
Commit(r) == IF r.err = Ok THEN r.st ELSE Ledger

\* system_program create_account, as issued by an `init` constraint:
\* the payer funds the rent of the new account.
PayRent(l, payer, rent) == [l EXCEPT !.lamports[payer] = @ - rent]

\* system_program::transfer(from wallet, to wallet, amount)
TransferToWallet(r, from, to, amount, name) ==
    IF r.err # Ok THEN r
    ELSE IF r.st.lamports[from] < amount THEN Fail(r, "InsufficientFunds")
    ELSE Step(r, [r.st EXCEPT !.lamports = [[@ EXCEPT ![from] = @ - amount]
                                              EXCEPT ![to] = @ + amount]], name)

\* Mutant of TransferToTreasury: the payer is debited, the treasury is not
\* credited.
TransferToTreasury_not_credited(r, from, m, amount, name) ==
    IF r.err # Ok THEN r
    ELSE IF r.st.lamports[from] < amount THEN Fail(r, "InsufficientFunds")
    ELSE Step(r, [r.st EXCEPT !.lamports[from] = @ - amount], name)

\* system_program::transfer(from wallet, to treasury PDA of marketplace m, amount)
TransferToTreasury(r, from, m, amount, name) ==
    IF r.err # Ok THEN r
    ELSE IF r.st.lamports[from] < amount THEN Fail(r, "InsufficientFunds")
    ELSE Step(r, [r.st EXCEPT !.lamports[from] = @ - amount,
                              !.treasury[m] = @ + amount], name)

\* u64 checked arithmetic; Overflow stands for None.
Overflow == -1
\* Mutant of checked_mul: u64 wrapping_mul, the product modulo 2^U64Bits
\* computed by doubling so that no intermediate value leaves TLC's integers.
RECURSIVE MulMod(_, _)
MulMod(a, b) ==
    IF a = 0 THEN 0
    ELSE (((2 * MulMod(a \div 2, b)) % (U64_MAX + 1))
          + (IF a % 2 = 1 THEN b ELSE 0)) % (U64_MAX + 1)
wrapping_mul(a, b) == MulMod(a, b)
checked_mul(a, b) == IF a = 0 \/ b <= U64_MAX \div a THEN a * b ELSE Overflow
checked_div(a, b) == IF a = Overflow \/ b = 0 THEN Overflow ELSE a \div b
checked_sub(a, b) == IF b = Overflow \/ a < b THEN Overflow ELSE a - b

(* ------------------------------- Init ---------------------------------- *)
Init ==
    /\ marketplace = [n \in MarketKeys |-> NoAccount]
    /\ listing = [k \in MarketKeys \X Assets |-> NoAccount]
    /\ vault = [k \in MarketKeys \X Assets |-> NoAccount]
    /\ ata = [k \in Identities \X Assets |->
                IF InitHolder[k[2]] = k[1] THEN TokenAccount(1)
                ELSE IF k \in InitEmptyAta THEN TokenAccount(0) ELSE NoAccount]
    /\ lamports = InitLamports
    /\ treasury = [n \in MarketKeys |-> 0]
    /\ metadata \in {f \in [Assets -> [collection : Collections \cup {NoCollection},
                                       verified : BOOLEAN]] :
                        /\ f["nft1"] = [collection |-> "colX", verified |-> TRUE]
                        /\ f["nft2"] \in {[collection |-> "colY", verified |-> TRUE],
                                          [collection |-> "colY", verified |-> FALSE],
                                          [collection |-> NoCollection, verified |-> FALSE]}}
    /\ result = [op |-> "none", err |-> Ok, steps |-> <<>>]
    /\ prior = Ledger

\* The ledger after a transaction: committed or rolled back, plus its outcome.
Finish(r, res) ==
    /\ marketplace' = Commit(r).marketplace
    /\ listing' = Commit(r).listing
    /\ vault' = Commit(r).vault
    /\ ata' = Commit(r).ata
    /\ lamports' = Commit(r).lamports
    /\ treasury' = Commit(r).treasury
    /\ metadata' = metadata
    /\ result' = [res EXCEPT !.err = r.err, !.steps = r.steps]
    /\ prior' = Ledger

(* ------------------------- init_marketplace ---------------------------- *)
\* #[derive(Accounts)] struct Initialize: marketplace and reward_mint are
\* `init` PDAs paid by admin; the marketplace PDA is seeded by the name.
InitializeAccounts(r, admin, name) ==
    IF name.len > MAX_SEED_LEN THEN Fail(r, "MaxSeedLengthExceeded")
    ELSE IF r.st.marketplace[name].exists THEN Fail(r, "AlreadyInUse")
    ELSE IF r.st.lamports[admin] < MarketplaceRent THEN Fail(r, "InsufficientFunds")
    ELSE LET r1 == Step(r, [PayRent(r.st, admin, MarketplaceRent)
                               EXCEPT !.marketplace[name] = Allocated], "init_marketplace")
         IN IF r1.st.lamports[admin] < MintRent THEN Fail(r1, "InsufficientFunds")
            ELSE Step(r1, PayRent(r1.st, admin, MintRent), "init_reward_mint")

\* Initialize::init
init(r, admin, name, fee) ==
    IF r.err # Ok THEN r
    ELSE Step(r, [r.st EXCEPT !.marketplace[name] = Marketplace(admin, fee, name)], "init")

\* pub fn init_marketplace(ctx, name, fee)
InitMarketplace ==
    \E admin \in Identities, name \in Names, fee \in Fees :
        Finish(init(InitializeAccounts(Begin(Ledger), admin, name), admin, name, fee),
               [op |-> "init_marketplace", signer |-> admin, market |-> name,
                fee |-> fee, err |-> Ok, steps |-> <<>>])

(* ------------------------------ listing -------------------------------- *)
\* Mutant of ListAccounts: the listing is `init_if_needed`, so an existing
\* record is taken over instead of rejected.
ListAccounts_init_if_needed(r, seller, m, mint, collection_mint) ==
    IF ~r.st.listing[<<m, mint>>].exists /\ r.st.lamports[seller] < ListingRent
    THEN Fail(r, "InsufficientFunds")
    ELSE LET r1 == IF r.st.listing[<<m, mint>>].exists THEN r
                   ELSE Step(r, [PayRent(r.st, seller, ListingRent)
                                    EXCEPT !.listing[<<m, mint>>] = Allocated],
                             "init_listing")
         IN IF ~r1.st.ata[<<seller, mint>>].exists
            THEN Fail(r1, "AccountNotInitialized: seller_ata")
            ELSE IF ~r1.st.marketplace[m].exists
            THEN Fail(r1, "AccountNotInitialized: marketplace")
            ELSE IF r1.st.vault[<<m, mint>>].exists THEN Fail(r1, "AlreadyInUse")
            ELSE IF r1.st.lamports[seller] < TokenAccountRent THEN Fail(r1, "InsufficientFunds")
            ELSE LET r2 == Step(r1, [PayRent(r1.st, seller, TokenAccountRent)
                                       EXCEPT !.vault[<<m, mint>>] = TokenAccount(0)],
                                "init_vault")
                 IN IF metadata[mint].collection = NoCollection THEN Fail(r2, "Panic")
                    ELSE IF metadata[mint].collection # collection_mint
                         THEN Fail(r2, "ConstraintRaw")
                    ELSE IF ~metadata[mint].verified THEN Fail(r2, "ConstraintRaw")
                    ELSE r2

\* #[derive(Accounts)] struct List, fields in declaration order: the `init`
\* accounts are created where they stand, then the constraints are checked.
ListAccounts(r, seller, m, mint, collection_mint) ==
    IF r.st.listing[<<m, mint>>].exists THEN Fail(r, "AlreadyInUse")
    ELSE IF r.st.lamports[seller] < ListingRent THEN Fail(r, "InsufficientFunds")
    ELSE LET r1 == Step(r, [PayRent(r.st, seller, ListingRent)
                               EXCEPT !.listing[<<m, mint>>] = Allocated], "init_listing")
         IN IF ~r1.st.ata[<<seller, mint>>].exists
            THEN Fail(r1, "AccountNotInitialized: seller_ata")
            ELSE IF ~r1.st.marketplace[m].exists
            THEN Fail(r1, "AccountNotInitialized: marketplace")
            ELSE IF r1.st.vault[<<m, mint>>].exists THEN Fail(r1, "AlreadyInUse")
            ELSE IF r1.st.lamports[seller] < TokenAccountRent THEN Fail(r1, "InsufficientFunds")
            ELSE LET r2 == Step(r1, [PayRent(r1.st, seller, TokenAccountRent)
                                       EXCEPT !.vault[<<m, mint>>] = TokenAccount(0)],
                                "init_vault")
                 IN IF metadata[mint].collection = NoCollection THEN Fail(r2, "Panic")
                    ELSE IF metadata[mint].collection # collection_mint
                         THEN Fail(r2, "ConstraintRaw")
                    ELSE IF ~metadata[mint].verified THEN Fail(r2, "ConstraintRaw")
                    ELSE r2

\* List::list
list(r, seller, m, mint, price) ==
    IF r.err # Ok THEN r
    ELSE Step(r, [r.st EXCEPT !.listing[<<m, mint>>] = Listing(seller, mint, price)], "list")

\* token transfer_checked(from, to, authority, amount 1, decimals 0) between
\* two token accounts of the same mint (the transaction passes both as
\* writable); `from` is the source account, `moved` the ledger with the unit
\* moved.
transfer_checked(r, from, moved, name) ==
    IF r.err # Ok THEN r
    ELSE IF from.amount < 1 THEN Fail(r, "TokenInsufficientFunds")
    ELSE Step(r, moved, name)

\* Mutant of deposit_nft: the vault is credited, the seller is not debited.
deposit_nft_no_debit(r, seller, m, mint) ==
    IF r.err # Ok THEN r
    ELSE transfer_checked(r, r.st.ata[<<seller, mint>>],
            [r.st EXCEPT !.vault[<<m, mint>>].amount = @ + 1],
            "deposit_nft")

\* List::deposit_nft
deposit_nft(r, seller, m, mint) ==
    IF r.err # Ok THEN r
    ELSE transfer_checked(r, r.st.ata[<<seller, mint>>],
            [r.st EXCEPT !.ata[<<seller, mint>>].amount = @ - 1,
                         !.vault[<<m, mint>>].amount = @ + 1],
            "deposit_nft")

\* Mutant of List: the asset is deposited before the Listing is written.
List_deposit_first ==
    \E seller \in Identities, m \in MarketKeys, mint \in Assets,
       collection_mint \in Collections, price \in Prices :
        Finish(list(deposit_nft(ListAccounts(Begin(Ledger), seller, m, mint, collection_mint),
                                seller, m, mint),
                    seller, m, mint, price),
               [op |-> "listing", signer |-> seller, market |-> m, mint |-> mint,
                collection_mint |-> collection_mint, price |-> price, err |-> Ok, steps |-> <<>>])

\* pub fn listing(ctx, price)
List ==
    \E seller \in Identities, m \in MarketKeys, mint \in Assets,
       collection_mint \in Collections, price \in Prices :
        Finish(deposit_nft(list(ListAccounts(Begin(Ledger), seller, m, mint, collection_mint),
                                seller, m, mint, price),
                           seller, m, mint),
               [op |-> "listing", signer |-> seller, market |-> m, mint |-> mint,
                collection_mint |-> collection_mint, price |-> price, err |-> Ok, steps |-> <<>>])

(* ----------------------------- delisting ------------------------------- *)
\* Mutant of DelistAccounts: the maker constraint on the listing is missing.
DelistAccounts_no_maker_check(r, seller, m, mint) ==
    IF ~r.st.listing[<<m, mint>>].exists THEN Fail(r, "AccountNotInitialized: listing")
    ELSE IF ~r.st.ata[<<seller, mint>>].exists THEN Fail(r, "AccountNotInitialized: seller_ata")
    ELSE IF ~r.st.marketplace[m].exists THEN Fail(r, "AccountNotInitialized: marketplace")
    ELSE IF ~r.st.vault[<<m, mint>>].exists THEN Fail(r, "AccountNotInitialized: vault")
    ELSE r

\* #[derive(Accounts)] struct Delist: every account is loaded, then the
\* constraints are checked.
DelistAccounts(r, seller, m, mint) ==
    IF ~r.st.listing[<<m, mint>>].exists THEN Fail(r, "AccountNotInitialized: listing")
    ELSE IF ~r.st.ata[<<seller, mint>>].exists THEN Fail(r, "AccountNotInitialized: seller_ata")
    ELSE IF ~r.st.marketplace[m].exists THEN Fail(r, "AccountNotInitialized: marketplace")
    ELSE IF ~r.st.vault[<<m, mint>>].exists THEN Fail(r, "AccountNotInitialized: vault")
    ELSE IF r.st.listing[<<m, mint>>].maker # seller THEN Fail(r, "ConstraintRaw")
    ELSE r

\* Mutant of withdraw_nft: the withdrawal applies the purchase-time fee cap.
withdraw_nft_fee_capped(r, seller, m, mint) ==
    IF r.err # Ok THEN r
    ELSE IF ~(r.st.marketplace[m].fee <= 5000) THEN Fail(r, "FeeTooHigh")
    ELSE transfer_checked(r, r.st.vault[<<m, mint>>],
            [r.st EXCEPT !.vault[<<m, mint>>].amount = @ - 1,
                         !.ata[<<seller, mint>>].amount = @ + 1],
            "withdraw_nft")

\* Delist::withdraw_nft
withdraw_nft(r, seller, m, mint) ==
    IF r.err # Ok THEN r
    ELSE transfer_checked(r, r.st.vault[<<m, mint>>],
            [r.st EXCEPT !.vault[<<m, mint>>].amount = @ - 1,
                         !.ata[<<seller, mint>>].amount = @ + 1],
            "withdraw_nft")

\* Mutant of close_account: every vault of the marketplace is closed, not
\* only the one of the mint.
close_account_every_vault(r, m, mint, destination, name) ==
    IF r.err # Ok THEN r
    ELSE IF r.st.vault[<<m, mint>>].amount # 0 THEN Fail(r, "NonNativeHasBalance")
    ELSE Step(r, [r.st EXCEPT !.vault = [k \in DOMAIN @ |-> IF k[1] = m THEN NoAccount ELSE @[k]],
                              !.lamports[destination] = @ + TokenAccountRent], name)

\* token close_account(account vault, destination, authority listing): the
\* vault must be empty; its lamports go to the destination wallet.
close_account(r, m, mint, destination, name) ==
    IF r.err # Ok THEN r
    ELSE IF r.st.vault[<<m, mint>>].amount # 0 THEN Fail(r, "NonNativeHasBalance")
    ELSE Step(r, [r.st EXCEPT !.vault[<<m, mint>>] = NoAccount,
                              !.lamports[destination] = @ + TokenAccountRent], name)

\* Mutant of CloseListing: the listing is left open, as without `close`.
CloseListing_skipped(r, seller, m, mint) == r

\* `close = seller` on Delist.listing, run when the handler has returned Ok.
CloseListing(r, seller, m, mint) ==
    IF r.err # Ok THEN r
    ELSE Step(r, [r.st EXCEPT !.listing[<<m, mint>>] = NoAccount,
                              !.lamports[seller] = @ + ListingRent], "close_listing")

\* Mutant of Delist: the vault is closed before the unit is withdrawn.
Delist_close_first ==
    \E seller \in Identities, m \in MarketKeys, mint \in Assets :
        Finish(CloseListing(
                 withdraw_nft(close_account(DelistAccounts(Begin(Ledger), seller, m, mint),
                                            m, mint, seller, "close_account"),
                              seller, m, mint),
                 seller, m, mint),
               [op |-> "delisting", signer |-> seller, market |-> m, mint |-> mint, err |-> Ok, steps |-> <<>>])

\* pub fn delisting(ctx)
Delist ==
    \E seller \in Identities, m \in MarketKeys, mint \in Assets :
        Finish(CloseListing(
                 close_account(withdraw_nft(DelistAccounts(Begin(Ledger), seller, m, mint),
                                            seller, m, mint),
                               m, mint, seller, "close_account"),
                 seller, m, mint),
               [op |-> "delisting", signer |-> seller, market |-> m, mint |-> mint, err |-> Ok, steps |-> <<>>])

(* ------------------------------ purchase ------------------------------- *)
\* Mutant of PurchaseAccounts: the maker constraint on the listing is missing.
PurchaseAccounts_any_seller(r, buyer, m, seller, mint) ==
    IF ~r.st.marketplace[m].exists THEN Fail(r, "AccountNotInitialized: marketplace")
    ELSE IF ~r.st.listing[<<m, mint>>].exists THEN Fail(r, "AccountNotInitialized: listing")
    ELSE IF ~r.st.ata[<<buyer, mint>>].exists /\ r.st.lamports[buyer] < TokenAccountRent
         THEN Fail(r, "InsufficientFunds")
    ELSE LET r1 == IF r.st.ata[<<buyer, mint>>].exists THEN r
                   ELSE Step(r, [PayRent(r.st, buyer, TokenAccountRent)
                                    EXCEPT !.ata[<<buyer, mint>>] = TokenAccount(0)],
                             "init_buyer_ata")
         IN IF ~r1.st.vault[<<m, mint>>].exists THEN Fail(r1, "AccountNotInitialized: vault")
            ELSE r1

\* #[derive(Accounts)] struct Purchase: buyer_ata is `init_if_needed`, paid
\* by the buyer; listing has neither `mut` nor `close`.
PurchaseAccounts(r, buyer, m, seller, mint) ==
    IF ~r.st.marketplace[m].exists THEN Fail(r, "AccountNotInitialized: marketplace")
    ELSE IF ~r.st.listing[<<m, mint>>].exists THEN Fail(r, "AccountNotInitialized: listing")
    ELSE IF ~r.st.ata[<<buyer, mint>>].exists /\ r.st.lamports[buyer] < TokenAccountRent
         THEN Fail(r, "InsufficientFunds")
    ELSE LET r1 == IF r.st.ata[<<buyer, mint>>].exists THEN r
                   ELSE Step(r, [PayRent(r.st, buyer, TokenAccountRent)
                                    EXCEPT !.ata[<<buyer, mint>>] = TokenAccount(0)],
                             "init_buyer_ata")
         IN IF ~r1.st.vault[<<m, mint>>].exists THEN Fail(r1, "AccountNotInitialized: vault")
            ELSE IF r1.st.listing[<<m, mint>>].maker # seller THEN Fail(r1, "ConstraintRaw")
            ELSE r1

\* Mutant of transfer_amounts: the fee is taken per mille, not per 10000.
transfer_amounts_per_mille(r, buyer, m, seller, mint) ==
    IF r.err # Ok THEN r
    ELSE IF ~(r.st.marketplace[m].fee <= 5000) THEN Fail(r, "FeeTooHigh")
    ELSE LET price == r.st.listing[<<m, mint>>].price
             fees == checked_div(checked_mul(r.st.marketplace[m].fee, price), 1000)
             seller_amount == checked_sub(price, fees)
         IN IF fees = Overflow THEN Fail(r, "MathOverflow")
            ELSE IF seller_amount = Overflow THEN Fail(r, "MathOverflow")
            ELSE TransferToTreasury(
                    TransferToWallet(r, buyer, seller, seller_amount, "pay_seller"),
                    buyer, m, fees, "pay_treasury")

\* Mutant of transfer_amounts: the 5000 bps cap is not enforced at purchase.
transfer_amounts_no_fee_cap(r, buyer, m, seller, mint) ==
    IF r.err # Ok THEN r
    ELSE LET price == r.st.listing[<<m, mint>>].price
             fees == checked_div(checked_mul(r.st.marketplace[m].fee, price), 10000)
             seller_amount == checked_sub(price, fees)
         IN IF fees = Overflow THEN Fail(r, "MathOverflow")
            ELSE IF seller_amount = Overflow THEN Fail(r, "MathOverflow")
            ELSE TransferToTreasury(
                    TransferToWallet(r, buyer, seller, seller_amount, "pay_seller"),
                    buyer, m, fees, "pay_treasury")

\* Mutant of transfer_amounts: nothing is paid.
transfer_amounts_unpaid(r, buyer, m, seller, mint) == r

\* Purchase::transfer_amounts
transfer_amounts(r, buyer, m, seller, mint) ==
    IF r.err # Ok THEN r
    ELSE IF ~(r.st.marketplace[m].fee <= 5000) THEN Fail(r, "FeeTooHigh")
    ELSE LET price == r.st.listing[<<m, mint>>].price
             fees == checked_div(checked_mul(r.st.marketplace[m].fee, price), 10000)
             seller_amount == checked_sub(price, fees)
         IN IF fees = Overflow THEN Fail(r, "MathOverflow")
            ELSE IF seller_amount = Overflow THEN Fail(r, "MathOverflow")
            ELSE TransferToTreasury(
                    TransferToWallet(r, buyer, seller, seller_amount, "pay_seller"),
                    buyer, m, fees, "pay_treasury")

\* Purchase::transfer_nft
transfer_nft(r, buyer, m, mint) ==
    IF r.err # Ok THEN r
    ELSE transfer_checked(r, r.st.vault[<<m, mint>>],
            [r.st EXCEPT !.vault[<<m, mint>>].amount = @ - 1,
                         !.ata[<<buyer, mint>>].amount = @ + 1],
            "transfer_nft")

\* Purchase::close_vault
close_vault(r, m, seller, mint) == close_account(r, m, mint, seller, "close_vault")

\* Mutant of Purchase: the asset is handed over and the vault closed before
\* the payments are made.
Purchase_asset_first ==
    \E buyer \in Identities, m \in MarketKeys, seller \in Identities, mint \in Assets :
        Finish(transfer_amounts(
                 close_vault(
                   transfer_nft(PurchaseAccounts(Begin(Ledger), buyer, m, seller, mint),
                                buyer, m, mint),
                   m, seller, mint),
                 buyer, m, seller, mint),
               [op |-> "purchase", signer |-> buyer, market |-> m, mint |-> mint,
                seller |-> seller, err |-> Ok, steps |-> <<>>])

\* pub fn purchase(ctx)
Purchase ==
    \E buyer \in Identities, m \in MarketKeys, seller \in Identities, mint \in Assets :
        Finish(close_vault(
                 transfer_nft(
                   transfer_amounts(PurchaseAccounts(Begin(Ledger), buyer, m, seller, mint),
                                    buyer, m, seller, mint),
                   buyer, m, mint),
                 m, seller, mint),
               [op |-> "purchase", signer |-> buyer, market |-> m, mint |-> mint,
                seller |-> seller, err |-> Ok, steps |-> <<>>])

Next == InitMarketplace \/ List \/ Delist \/ Purchase

Spec == Init /\ [][Next]_vars

(* ======================== properties of the code ======================= *)
\* The listing key (marketplace, mint) a transaction outcome is about.
KeyOf(res) == <<res.market, res.mint>>

\* The accounts are as they were before the step.
LedgerUnchanged ==
    /\ marketplace' = marketplace /\ listing' = listing /\ vault' = vault
    /\ ata' = ata /\ lamports' = lamports /\ treasury' = treasury

\* Token amount of an account, 0 when it does not exist.
AmountOf(acct) == IF acct.exists THEN acct.amount ELSE 0

\* Rent the buyer pays for its token account when it has none yet.
BuyerAtaRent(b, mint) == IF ata[<<b, mint>>].exists THEN 0 ELSE TokenAccountRent

\* floor(price * fee_bps / 10000)
FloorFee(price, fee_bps) == (price * fee_bps) \div 10000

\* Wallets after buyer b paid price, of which fee went to the treasury and
\* the rest to seller s, who also got the vault's rent back.
Settled(b, s, mint, price, fee) ==
    [w \in Identities |->
        lamports[w]
        - (IF w = b THEN price + BuyerAtaRent(b, mint) ELSE 0)
        + (IF w = s THEN (price - fee) + TokenAccountRent ELSE 0)]

\* C1: a purchase attempt either does all of: debit the buyer by price,
\* credit the seller with seller_amount, credit the treasury with fee and
\* move the unit from the vault to the buyer; or it changes no account.
C1_PurchaseAllOrNothing ==
    [][result'.op = "purchase" =>
        LET b == result'.signer
            s == result'.seller
            m == result'.market
            k == KeyOf(result')
        IN \/ LedgerUnchanged
           \/ /\ listing[k].exists /\ vault[k].exists /\ marketplace[m].exists
              /\ LET price == listing[k].price
                     fee == treasury'[m] - treasury[m]
                 IN /\ fee >= 0 /\ fee <= price
                    /\ lamports' = Settled(b, s, k[2], price, fee)
                    /\ vault[k].amount = 1 /\ ~vault'[k].exists
                    /\ ata'[<<b, k[2]>>].exists
                    /\ ata'[<<b, k[2]>>].amount = AmountOf(ata[<<b, k[2]>>]) + 1]_vars

\* C1 witness: a purchase that failed after its first payment sub-step had
\* run, and left no trace of it.
C1_Witness ==
    /\ result.op = "purchase" /\ result.err = "InsufficientFunds"
    /\ result.steps # <<>> /\ result.steps[Len(result.steps)] = "pay_seller"
    /\ lamports = prior.lamports

\* C2: in a successful purchase the stored fee rate is at most 5000, the
\* treasury gains fee = floor(price * fee_bps / 10000), the seller is
\* credited seller_amount = price - fee, and fee + seller_amount = price.
C2_FeeSplit ==
    [][(result'.op = "purchase" /\ result'.err = Ok) =>
        LET b == result'.signer
            s == result'.seller
            m == result'.market
            k == KeyOf(result')
            price == listing[k].price
            fee == treasury'[m] - treasury[m]
            seller_amount == lamports'[s] - lamports[s] - TokenAccountRent
                             + (IF b = s THEN price + BuyerAtaRent(b, k[2]) ELSE 0)
        IN /\ marketplace[m].fee <= 5000
           /\ fee = FloorFee(price, marketplace[m].fee)
           /\ seller_amount = price - fee
           /\ fee + seller_amount = price]_vars

\* C2 witness: a purchase at 250 bps whose fee was rounded down.
C2_Witness ==
    /\ result.op = "purchase" /\ result.err = Ok /\ result.signer # result.seller
    /\ marketplace[result.market].fee = 250
    /\ prior.listing[KeyOf(result)].price = MidPrice
    /\ treasury[result.market] = prior.treasury[result.market] + 1000
    /\ (MidPrice * 250) % 10000 # 0

\* C3: after a successful purchase neither the Listing nor the vault of the
\* purchased (marketplace, asset) exists.
C3_PurchaseDestroysListingAndVault ==
    (result.op = "purchase" /\ result.err = Ok) =>
        (~listing[KeyOf(result)].exists /\ ~vault[KeyOf(result)].exists)

\* C4: in every state a Listing exists for (marketplace, asset) exactly when
\* its vault exists.
C4_ListingIffVault ==
    \A k \in MarketKeys \X Assets : listing[k].exists <=> vault[k].exists

\* C5: once a Delist or Purchase has succeeded on a listing, the Delist or
\* Purchase attempt that follows on the same (marketplace, asset) fails
\* because no Listing is found, and changes no account.
C5_ExactlyOnceConsumption ==
    [][(/\ result.op \in {"delisting", "purchase"} /\ result.err = Ok
        /\ result'.op \in {"delisting", "purchase"}
        /\ KeyOf(result') = KeyOf(result))
       => (result'.err = "AccountNotInitialized: listing" /\ LedgerUnchanged)]_vars

\* C6: a successful Delist puts the unit back into the maker's own token
\* account and leaves neither Listing nor vault; when it directly follows
\* the List that created the listing, token holdings and records are again
\* what they were before that List.
C6_ListDelistRoundTrip ==
    [][(result'.op = "delisting" /\ result'.err = Ok) =>
        LET k == KeyOf(result')
        IN /\ result'.signer = listing[k].maker
           /\ ata'[<<listing[k].maker, k[2]>>] = TokenAccount(1)
           /\ ~listing'[k].exists /\ ~vault'[k].exists
           /\ (result.op = "listing" /\ result.err = Ok /\ KeyOf(result) = k)
                => (ata' = prior.ata /\ listing' = prior.listing /\ vault' = prior.vault)]_vars

\* C6 witness: a Delist has just undone the List before it.
C6_Witness ==
    /\ result.op = "delisting" /\ result.err = Ok
    /\ prior.listing[KeyOf(result)].maker = result.signer
    /\ prior.vault[KeyOf(result)] = TokenAccount(1)
    /\ ata[<<result.signer, result.mint>>] = TokenAccount(1)
    /\ ~listing[KeyOf(result)].exists

C8_OneListingPerKey ==
    [][(result'.op = "listing" /\ listing[KeyOf(result')].exists)
       => (result'.err = "AlreadyInUse" /\ LedgerUnchanged)]_vars

\* C8 witness: the holder of a sold asset tried to list it where the old
\* Listing record still stands.
C8_Witness ==
    /\ result.op = "listing" /\ result.err = "AlreadyInUse"
    /\ listing[KeyOf(result)].exists
    /\ ata[<<result.signer, result.mint>>] = TokenAccount(1)

\* C9: every Listing has a price above zero.
C9_ListingPricePositive ==
    \A k \in MarketKeys \X Assets : listing[k].exists => listing[k].price > 0

\* A List whose accounts are all in order, the metadata aside.
ListOtherwiseValid(res) ==
    /\ ~listing[KeyOf(res)].exists /\ ~vault[KeyOf(res)].exists
    /\ marketplace[res.market].exists
    /\ ata[<<res.signer, res.mint>>] = TokenAccount(1)
    /\ lamports[res.signer] >= ListingRent + TokenAccountRent

\* C10: a List naming a collection the asset is not recorded in fails with
\* InvalidCollection, one of an unverified member with UnverifiedCollection
\* (spelled UnverifedCollection in error.rs); neither changes any account.
C10_CollectionErrors ==
    [][(result'.op = "listing" /\ ListOtherwiseValid(result'))
       => LET md == metadata[result'.mint]
          IN /\ md.collection # result'.collection_mint
                  => (result'.err = "InvalidCollection" /\ LedgerUnchanged)
             /\ (md.collection = result'.collection_mint /\ ~md.verified)
                  => (result'.err \in {"UnverifiedCollection", "UnverifedCollection"}
                      /\ LedgerUnchanged)]_vars

\* C11: in every state the vault of a (marketplace, asset) that has a Listing
\* holds exactly 1 unit, and the vault of one that has no Listing is closed.
C11_VaultHoldsOneWhileListed ==
    \A k \in MarketKeys \X Assets :
        /\ listing[k].exists => (vault[k].exists /\ vault[k].amount = 1)
        /\ ~listing[k].exists => ~vault[k].exists

\* A Purchase whose accounts all pass the checks of struct Purchase: the
\* marketplace, the Listing and its vault exist, the named seller is the
\* maker, and the buyer has a token account or the rent for one.
PurchaseAccountsValid(res) ==
    /\ marketplace[res.market].exists
    /\ listing[KeyOf(res)].exists /\ vault[KeyOf(res)].exists
    /\ listing[KeyOf(res)].maker = res.seller
    /\ (ata[<<res.signer, res.mint>>].exists \/ lamports[res.signer] >= TokenAccountRent)

\* C12: init_marketplace with a fee above 5000 bps on a free name succeeds
\* and stores that fee; every purchase on a marketplace whose stored fee is
\* above 5000 fails and changes no account (no payment, the unit still in
\* the vault, the Listing as it was), with FeeTooHigh whenever its accounts
\* pass their checks.
C12_FeeAboveCapBlocksPurchase ==
    [][/\ (/\ result'.op = "init_marketplace" /\ result'.fee > 5000
           /\ result'.market \in MarketKeys
           /\ ~marketplace[result'.market].exists
           /\ lamports[result'.signer] >= MarketplaceRent + MintRent)
          => (/\ result'.err = Ok
              /\ marketplace'[result'.market].exists
              /\ marketplace'[result'.market].fee = result'.fee)
       /\ (/\ result'.op = "purchase"
           /\ marketplace[result'.market].exists
           /\ marketplace[result'.market].fee > 5000)
          => (/\ result'.err # Ok
              /\ LedgerUnchanged
              /\ PurchaseAccountsValid(result') => result'.err = "FeeTooHigh")]_vars

\* C12 witness: a purchase of a live listing, by a buyer who could pay, was
\* turned away with FeeTooHigh on a marketplace created with 6000 bps.
C12_Witness ==
    /\ result.op = "purchase" /\ result.err = "FeeTooHigh"
    /\ marketplace[result.market].fee = 6000
    /\ listing[KeyOf(result)].exists /\ vault[KeyOf(result)] = TokenAccount(1)
    /\ lamports[result.signer] >= listing[KeyOf(result)].price + TokenAccountRent

\* C13: in every state the fee of every marketplace is at most 10000.
C13_FeeAtMost10000 ==
    \A m \in MarketKeys : marketplace[m].exists => marketplace[m].fee <= 10000

\* fee_bps * price fits in a u64.
ProductFits(fee_bps, price) == fee_bps = 0 \/ price <= U64_MAX \div fee_bps

\* C14: a purchase whose accounts pass their checks, on a marketplace within
\* the 5000 bps cap, whose fee_bps * price does not fit in a u64 fails with
\* MathOverflow and changes no account; no purchase succeeds on a product
\* that does not fit, nor on a fee above the price.
C14_OverflowAborts ==
    [][(result'.op = "purchase" /\ PurchaseAccountsValid(result')) =>
        LET fee_bps == marketplace[result'.market].fee
            price == listing[KeyOf(result')].price
        IN /\ (fee_bps <= 5000 /\ ~ProductFits(fee_bps, price))
                => (result'.err = "MathOverflow" /\ LedgerUnchanged)
           /\ result'.err = Ok
                => (ProductFits(fee_bps, price) /\ FloorFee(price, fee_bps) <= price)]_vars

\* C14 witness: a purchase of a listing priced at the largest u64 on a
\* marketplace charging a fee failed with MathOverflow and moved nothing.
C14_Witness ==
    /\ result.op = "purchase" /\ result.err = "MathOverflow"
    /\ listing[KeyOf(result)].price = U64_MAX
    /\ marketplace[result.market].fee \in {250, 5000}
    /\ vault[KeyOf(result)] = TokenAccount(1)
    /\ lamports = prior.lamports /\ treasury = prior.treasury

\* A Purchase of a valid Listing: the marketplace exists with a fee within
\* the cap, the Listing exists with its unit in the vault, the named seller
\* is its maker, and fee_bps * price fits in a u64.
ValidListing(res) ==
    /\ marketplace[res.market].exists /\ marketplace[res.market].fee <= 5000
    /\ listing[KeyOf(res)].exists /\ vault[KeyOf(res)] = TokenAccount(1)
    /\ listing[KeyOf(res)].maker = res.seller
    /\ ProductFits(marketplace[res.market].fee, listing[KeyOf(res)].price)

\* C15: a purchase of a valid Listing by a buyer other than its seller
\* succeeds whenever the buyer's balance is at least the price, and fails
\* changing no account whenever it is below the price.
C15_SucceedsIffFundsCoverPrice ==
    [][(/\ result'.op = "purchase" /\ ValidListing(result')
        /\ result'.signer # result'.seller) =>
        LET price == listing[KeyOf(result')].price
        IN /\ lamports[result'.signer] >= price => result'.err = Ok
           /\ lamports[result'.signer] < price => (result'.err # Ok /\ LedgerUnchanged)]_vars

\* C16: a purchase naming as seller anyone but the maker of the Listing
\* fails and changes no account; in every successful purchase the named
\* seller is the maker stored in the Listing, and it is the maker's wallet
\* that gains seller_amount (with the vault's rent).
C16_OnlyMakerIsPaid ==
    [][(result'.op = "purchase" /\ listing[KeyOf(result')].exists) =>
        LET k == KeyOf(result')
            maker == listing[k].maker
            b == result'.signer
            fee == treasury'[result'.market] - treasury[result'.market]
        IN /\ result'.seller # maker => (result'.err # Ok /\ LedgerUnchanged)
           /\ result'.err = Ok =>
                /\ result'.seller = maker
                /\ listing'[k].maker = maker
                /\ b # maker => lamports'[maker] - lamports[maker]
                                    = (listing[k].price - fee) + TokenAccountRent
                /\ \A w \in Identities \ {b, maker} : lamports'[w] = lamports[w]]_vars

\* C16 witness: a purchase of a live listing naming a seller who is not its
\* maker was turned away.
C16_Witness ==
    /\ result.op = "purchase" /\ result.err = "ConstraintRaw"
    /\ listing[KeyOf(result)].exists /\ vault[KeyOf(result)] = TokenAccount(1)
    /\ listing[KeyOf(result)].maker # result.seller
    /\ lamports = prior.lamports

\* C17: a successful purchase credits the seller, beyond seller_amount, with
\* the rent of both accounts List created (the Listing and the vault), and
\* leaves neither account holding rent.
C17_BothRentsReturned ==
    [][(result'.op = "purchase" /\ result'.err = Ok) =>
        LET k == KeyOf(result')
            b == result'.signer
            s == result'.seller
            price == listing[k].price
            fee == treasury'[result'.market] - treasury[result'.market]
            credited == lamports'[s] - lamports[s]
                        + (IF b = s THEN price + BuyerAtaRent(b, k[2]) ELSE 0)
        IN /\ credited = (price - fee) + TokenAccountRent + ListingRent
           /\ ~listing'[k].exists /\ ~vault'[k].exists]_vars

\* C18: a successful purchase adds floor(price * fee_bps / 10000) to the
\* treasury of its marketplace, and no other step (a failed purchase, a
\* listing, a delisting, an init_marketplace) changes any treasury; hence a
\* treasury never decreases and holds the sum of the fees of the successful
\* purchases.
C18_TreasuryOnlyGainsFees ==
    [][IF result'.op = "purchase" /\ result'.err = Ok
       THEN LET m == result'.market
            IN /\ treasury'[m] = treasury[m]
                     + FloorFee(listing[KeyOf(result')].price, marketplace[m].fee)
               /\ \A n \in MarketKeys \ {m} : treasury'[n] = treasury[n]
       ELSE treasury' = treasury]_vars

\* C18 witness: the treasury holds the fees of two purchases at 250 bps, and
\* the step before was a purchase.
C18_Witness ==
    /\ result.op = "purchase" /\ result.err = Ok
    /\ marketplace[result.market].fee = 250
    /\ prior.treasury[result.market] = FloorFee(MidPrice, 250)
    /\ treasury[result.market] = 2 * FloorFee(MidPrice, 250)

\* C19: init_marketplace with a name longer than 32 fails with NameTooLong
\* and changes no account, and every marketplace stored has a name of at
\* most 32.
C19_NameTooLong ==
    [][/\ (result'.op = "init_marketplace" /\ result'.market.len > 32)
            => (result'.err = "NameTooLong" /\ LedgerUnchanged)
       /\ \A m \in MarketKeys : marketplace'[m].exists => marketplace'[m].name.len <= 32]_vars

\* The sub-steps of a purchase handler, in the order of lib.rs and
\* transfer_amounts.
PurchaseOrder == <<"pay_seller", "pay_treasury", "transfer_nft", "close_vault">>

\* s is an initial part of t.
IsPrefix(s, t) == Len(s) <= Len(t) /\ SubSeq(t, 1, Len(s)) = s

\* The sub-steps a purchase ran inside its handler, account creation aside.
HandlerSteps(res) == SelectSeq(res.steps, LAMBDA x : x # "init_buyer_ata")

\* C20: the sub-steps a purchase has run are an initial part of: pay seller,
\* pay treasury, transfer asset, close vault; all four when it succeeded. So
\* the asset transfer has run only after both payments.
C20_PurchaseStepOrder ==
    result.op = "purchase" =>
        /\ IsPrefix(HandlerSteps(result), PurchaseOrder)
        /\ result.err = Ok => HandlerSteps(result) = PurchaseOrder
        /\ (\E i \in 1..Len(result.steps) : result.steps[i] = "transfer_nft")
             => \E i, j, n \in 1..Len(result.steps) :
                    /\ i < j /\ j < n
                    /\ result.steps[i] = "pay_seller"
                    /\ result.steps[j] = "pay_treasury"
                    /\ result.steps[n] = "transfer_nft"

\* C20 witness: a purchase that created the buyer's token account and then
\* ran the four sub-steps.
C20_Witness ==
    /\ result.op = "purchase" /\ result.err = Ok
    /\ result.steps = <<"init_buyer_ata">> \o PurchaseOrder
    /\ ata[<<result.signer, result.mint>>] = TokenAccount(1)
    /\ ~vault[KeyOf(result)].exists

\* name occurs in the step log of the outcome res.
Ran(res, name) == \E i \in 1..Len(res.steps) : res.steps[i] = name

\* C21: a purchase by a buyer, other than the seller, whose balance was below
\* the price of the Listing has failed without having run the seller
\* payment, the fee payment or the asset transfer.
C21_FailsBeforeAnyTransfer ==
    (/\ result.op = "purchase" /\ result.signer # result.seller
     /\ prior.marketplace[result.market].exists
     /\ prior.listing[KeyOf(result)].exists
     /\ prior.vault[KeyOf(result)] = TokenAccount(1)
     /\ prior.listing[KeyOf(result)].maker = result.seller
     /\ prior.lamports[result.signer] < prior.listing[KeyOf(result)].price)
    => /\ result.err # Ok
       /\ ~Ran(result, "pay_seller") /\ ~Ran(result, "pay_treasury")
       /\ ~Ran(result, "transfer_nft")

\* The steps of a listing transaction, in the order of struct List and
\* lib.rs.
ListOrder == <<"init_listing", "init_vault", "list", "deposit_nft">>

\* C22: the steps a listing transaction has run are an initial part of:
\* create the Listing account, create the vault, write the Listing, deposit
\* the unit; so the deposit runs only after the Listing is written and never
\* when writing it was not reached. A listing that fails, in the deposit or
\* anywhere else, changes no account: no Listing and no vault remain of it
\* and the unit stays where it was.
C22_ListIndivisible ==
    [][result'.op = "listing" =>
        LET k == KeyOf(result')
        IN /\ IsPrefix(result'.steps, ListOrder)
           /\ result'.err = Ok => result'.steps = ListOrder
           /\ result'.err # Ok => (LedgerUnchanged /\ ~Ran(result', "deposit_nft"))
           /\ (result'.err # Ok /\ ~listing[k].exists /\ ~vault[k].exists)
                => (~listing'[k].exists /\ ~vault'[k].exists)]_vars

\* C22 witness: a listing by a maker whose token account is empty wrote the
\* Listing, failed in the deposit, and left neither Listing nor vault.
C22_Witness ==
    /\ result.op = "listing" /\ result.err = "TokenInsufficientFunds"
    /\ result.steps = <<"init_listing", "init_vault", "list">>
    /\ ata[<<result.signer, result.mint>>] = TokenAccount(0)
    /\ ~listing[KeyOf(result)].exists /\ ~vault[KeyOf(result)].exists

\* The steps of a delisting transaction, in the order of lib.rs, followed by
\* the `close = seller` of the Listing when the handler has returned.
DelistOrder == <<"withdraw_nft", "close_account", "close_listing">>

\* A Delist whose accounts all pass the checks of struct Delist, on a vault
\* holding the unit.
DelistAccountsValid(res) ==
    /\ marketplace[res.market].exists
    /\ listing[KeyOf(res)].exists /\ listing[KeyOf(res)].maker = res.signer
    /\ vault[KeyOf(res)] = TokenAccount(1)
    /\ ata[<<res.signer, res.mint>>].exists

\* C23: the steps a delisting has run are an initial part of: withdraw the
\* unit to the seller, close the vault, close the Listing; a delisting whose
\* accounts pass their checks runs all three, and whenever a delisting
\* closes a vault, the unit that vault held is in the seller's token account
\* afterwards.
C23_DelistStepOrder ==
    [][result'.op = "delisting" =>
        LET k == KeyOf(result')
            own == <<result'.signer, result'.mint>>
        IN /\ IsPrefix(result'.steps, DelistOrder)
           /\ DelistAccountsValid(result') => result'.steps = DelistOrder
           /\ (vault[k].exists /\ ~vault'[k].exists)
                => /\ Ran(result', "withdraw_nft")
                   /\ ata'[own].amount = ata[own].amount + vault[k].amount
                   /\ ~listing'[k].exists]_vars

\* C23 witness: a delisting ran its three steps in order and the unit is
\* back with the seller.
C23_Witness ==
    /\ result.op = "delisting" /\ result.steps = DelistOrder
    /\ prior.vault[KeyOf(result)] = TokenAccount(1)
    /\ ~vault[KeyOf(result)].exists
    /\ ata[<<result.signer, result.mint>>].amount
         = prior.ata[<<result.signer, result.mint>>].amount + 1

\* C24: a listing, delisting or purchase of asset a on marketplace m,
\* successful or not, leaves the Listing and the vault of every other
\* (marketplace, asset) and every token account of every other asset as
\* they were.
C24_ListingsIndependent ==
    [][result'.op \in {"listing", "delisting", "purchase"} =>
        /\ \A k \in (MarketKeys \X Assets) \ {KeyOf(result')} :
              listing'[k] = listing[k] /\ vault'[k] = vault[k]
        /\ \A w \in Identities, b \in Assets \ {result'.mint} :
              ata'[<<w, b>>] = ata[<<w, b>>]]_vars

\* C24 witness: a purchase of one asset succeeded while the other asset was
\* listed, and that listing stands with its unit in its vault.
C24_Witness ==
    /\ result.op = "purchase" /\ result.err = Ok
    /\ \E b \in Assets \ {result.mint} :
          /\ prior.listing[<<result.market, b>>].exists
          /\ prior.vault[<<result.market, b>>] = TokenAccount(1)
          /\ listing[<<result.market, b>>] = prior.listing[<<result.market, b>>]
          /\ vault[<<result.market, b>>] = TokenAccount(1)

\* Total of the token amounts of the accounts accts[k], k in keys.
RECURSIVE SumAmounts(_, _)
SumAmounts(accts, keys) ==
    IF keys = {} THEN 0
    ELSE LET k == CHOOSE x \in keys : TRUE
         IN AmountOf(accts[k]) + SumAmounts(accts, keys \ {k})

\* Units of asset a in all token accounts of identities and in all vaults.
Units(a) == SumAmounts(ata, Identities \X {a}) + SumAmounts(vault, MarketKeys \X {a})

\* C25: in every state each asset has one unit in total over all token
\* accounts of identities and all vaults, so it is held by exactly one of
\* them.
C25_AssetConservation ==
    \A a \in Assets :
        /\ Units(a) = 1
        /\ Cardinality({k \in Identities \X {a} : AmountOf(ata[k]) > 0})
             + Cardinality({k \in MarketKeys \X {a} : AmountOf(vault[k]) > 0}) = 1

\* C25 witness: after a purchase one asset is with its buyer, who did not
\* hold it at the start, while the other asset is in a vault.
C25_Witness ==
    /\ result.op = "purchase" /\ result.err = Ok
    /\ InitHolder[result.mint] # result.signer
    /\ ata[<<result.signer, result.mint>>] = TokenAccount(1)
    /\ \E b \in Assets \ {result.mint} : vault[<<result.market, b>>] = TokenAccount(1)

\* C26: the List that follows a successful purchase, for the asset bought,
\* on the same marketplace, by the buyer (who was not the seller), naming
\* the asset's verified collection and with the rent of the two accounts in
\* hand, succeeds.
C26_RelistAfterSale ==
    [][(/\ result.op = "purchase" /\ result.err = Ok
        /\ result.signer # result.seller
        /\ result'.op = "listing"
        /\ KeyOf(result') = KeyOf(result)
        /\ result'.signer = result.signer
        /\ metadata[result'.mint].collection = result'.collection_mint
        /\ metadata[result'.mint].verified
        /\ lamports[result'.signer] >= ListingRent + TokenAccountRent)
       => result'.err = Ok]_vars

\* The listings whose vault holds the unit.
LiveKeys == {k \in MarketKeys \X Assets : listing[k].exists /\ vault[k] = TokenAccount(1)}

\* C27: in every state, for every Listing whose vault holds the unit, the
\* accounts a Delist by its maker needs are there (the marketplace and the
\* maker's token account), and every such Delist succeeds, whatever the fee
\* and the price: the unit is back in the maker's token account, the vault
\* and the Listing are closed.
C27_MakerCanAlwaysReclaim ==
    [][/\ \A k \in LiveKeys : /\ marketplace[k[1]].exists
                              /\ ata[<<listing[k].maker, k[2]>>].exists
       /\ (/\ result'.op = "delisting"
           /\ KeyOf(result') \in LiveKeys
           /\ result'.signer = listing[KeyOf(result')].maker)
          => LET k == KeyOf(result')
                 own == <<result'.signer, result'.mint>>
             IN /\ result'.err = Ok
                /\ ata'[own].amount = ata[own].amount + 1
                /\ ~vault'[k].exists /\ ~listing'[k].exists]_vars

\* C27 witness: the maker reclaimed an asset listed at the largest price on
\* a marketplace whose fee is above the cap, where no purchase can succeed.
C27_Witness ==
    /\ result.op = "delisting" /\ result.err = Ok
    /\ marketplace[result.market].fee > 5000
    /\ prior.listing[KeyOf(result)].price = U64_MAX
    /\ prior.listing[KeyOf(result)].maker = result.signer
    /\ ata[<<result.signer, result.mint>>] = TokenAccount(1)

\* C28: whenever a step takes the unit out of a vault, the step is either a
\* successful Delist of that listing signed by its maker, which puts the
\* unit into the maker's token account, or a successful Purchase of that
\* listing, which puts the unit into the buyer's token account and in which
\* the buyer pays the price stored in the Listing, all of it going to the
\* seller and the treasury (the buyer's only other outlay being the rent of
\* its own token account when it had none). The price of a Listing never
\* changes while the Listing exists.
C28_CustodySafety ==
    [][/\ \A k \in MarketKeys \X Assets :
            (AmountOf(vault[k]) = 1 /\ AmountOf(vault'[k]) = 0) =>
                LET own == <<result'.signer, k[2]>>
                    fee == treasury'[k[1]] - treasury[k[1]]
                IN /\ result'.err = Ok /\ KeyOf(result') = k
                   /\ listing[k].exists
                   /\ ata'[own] = TokenAccount(AmountOf(ata[own]) + 1)
                   /\ \/ /\ result'.op = "delisting"
                         /\ result'.signer = listing[k].maker
                      \/ /\ result'.op = "purchase"
                         /\ result'.seller = listing[k].maker
                         /\ fee >= 0 /\ fee <= listing[k].price
                         /\ lamports' = Settled(result'.signer, result'.seller, k[2],
                                                listing[k].price, fee)
       /\ \A k \in MarketKeys \X Assets :
            (listing[k].exists /\ listing'[k].exists) => listing'[k] = listing[k]]_vars

\* C28 witness: the unit left the vault in a purchase by a buyer other than
\* the maker, whose wallet is lighter by the listed price and the rent of
\* the token account it had to open.
C28_Witness ==
    /\ result.op = "purchase" /\ result.err = Ok
    /\ result.signer # result.seller
    /\ prior.vault[KeyOf(result)] = TokenAccount(1) /\ ~vault[KeyOf(result)].exists
    /\ prior.listing[KeyOf(result)].price = MidPrice
    /\ ~prior.ata[<<result.signer, result.mint>>].exists
    /\ lamports[result.signer] = prior.lamports[result.signer] - MidPrice - TokenAccountRent
    /\ ata[<<result.signer, result.mint>>] = TokenAccount(1)

\* Total of f[k] over k in keys.
RECURSIVE SumOf(_, _)
SumOf(f, keys) ==
    IF keys = {} THEN 0
    ELSE LET k == CHOOSE x \in keys : TRUE
         IN f[k] + SumOf(f, keys \ {k})

\* All funds of a ledger l that C29 counts: the wallets, the treasuries and
\* the rent held by the Listing and vault accounts that exist.
TotalFunds(l) ==
    SumOf(l.lamports, Identities) + SumOf(l.treasury, MarketKeys)
    + ListingRent * Cardinality({k \in MarketKeys \X Assets : l.listing[k].exists})
    + TokenAccountRent * Cardinality({k \in MarketKeys \X Assets : l.vault[k].exists})

\* C29: a listing, delisting or purchase, successful or not, leaves the
\* total of the wallets, the treasuries and the rent held in Listing and
\* vault accounts as it was before, and a successful purchase by a buyer
\* other than the seller lowers the buyer's wallet by exactly the price.
C29_FundsConservation ==
    result.op \in {"listing", "delisting", "purchase"} =>
        /\ TotalFunds(Ledger) = TotalFunds(prior)
        /\ (result.op = "purchase" /\ result.err = Ok /\ result.signer # result.seller)
             => prior.lamports[result.signer] - lamports[result.signer]
                  = prior.listing[KeyOf(result)].price

====
